---------------------------- MODULE Spec2Model ----------------------------
(***************************************************************************)
(* A model of the Flake8 lint worker, "Python Flake8 Lint/lint.py":        *)
(*   lint()               the in-process runner and its final sort         *)
(*   lint_external()      the command line it builds, the child's argument *)
(*                        parser, and the parsing of the child's output    *)
(*   load_flake8_config() the upward search for a config file and the      *)
(*                        extraction of the four recognised options        *)
(* The wrapped libraries (pep8, pyflakes, mccabe, ...) are not part of the *)
(* file: what each reports about a source text is an input of the model.   *)
(*                                                                         *)
(* Python values are tagged tuples: <<"none">>, <<"bool", b>>,             *)
(* <<"int", n>>, <<"str", s>>, <<"list", l>>.  A Python string is the      *)
(* sequence of its characters, so that split, strip, join, int() and       *)
(* format() are computed character by character.                           *)
(***************************************************************************)
EXTENDS Integers, Sequences, FiniteSets, TLC

VARIABLES
    \* ---- lint()
    pc,              \* position inside lint(): "idle", a checker's name, "done"
    settings,        \* the settings mapping of the current call
    lines,           \* the source text, seen through compile() and the libraries
    tree,            \* what compile() made of the source: a tree or an exception
    warnings,        \* the local list 'warnings' of lint()
    reported,        \* how often each diagnostic was handed to lint() so far
    invoked,         \* the checkers run in this call, each with its parameter
    result,          \* the value lint() returned
    builtIns,        \* pyflakes.checker.Checker.builtIns beyond the language's own
    max_complexity,  \* mccabe.McCabeChecker.max_complexity
    calls,           \* lint() calls made so far in this process
    \* ---- lint_external(): command line and child argument parser
    ext_pc,
    ext_settings,    \* the settings mapping given to lint_external()
    arguments,       \* the list 'arguments' handed to Popen
    child,           \* what the child made of its command line
    \* ---- lint_external(): parsing of the child's output
    out_pc,
    output,          \* the child's output, result.splitlines(), as byte lines
    out_idx,         \* index of the next output line
    ext_warnings,    \* the list 'warnings' of lint_external()
    printed,         \* the lines printed as "Flake8Lint ERROR: ..."
    \* ---- load_flake8_config()
    cfg_pc,
    cfg_args,        \* filename (its depth below the root) and the two flags
    fs,              \* the config files that exist: a set of <<depth, name>>
    parent,          \* the walk's 'parent', as its depth below the root
    tail,            \* the walk's 'tail': TRUE when the string is non-empty
    visited,         \* the values of 'parent' the walk has probed, in order
    read_files,      \* the files parser.read() has read, in order
    parser,          \* the RawConfigParser's sections and options
    opt_idx,         \* index of the next row of 'options'
    cfg_result       \* the dict 'result' of load_flake8_config()

lintVars == <<pc, settings, lines, tree, warnings, reported, invoked, result,
              builtIns, max_complexity, calls>>
argVars == <<ext_pc, ext_settings, arguments, child>>
outVars == <<out_pc, output, out_idx, ext_warnings, printed>>
walkVars == <<cfg_pc, cfg_args, fs, parent, tail, visited, read_files>>
optVars == <<parser, opt_idx, cfg_result>>
vars == <<lintVars, argVars, outVars, walkVars, optVars>>

-----------------------------------------------------------------------------
(* Bounds of the model. *)

\* the longest list of diagnostics handed to the final sort
MaxWarnings == 3
\* the most keys a settings mapping holds
MaxKeys == 2
\* the most diagnostics the libraries report in one lint() call
MaxReported == 2
\* the most lint() calls made in one process
MaxCalls == 2
\* the most lines of child output
MaxLines == 2
\* the most colon-separated fields of a line of child output
MaxFields == 4
\* the deepest target file, counted in directories below the root
MaxDepth == 2

-----------------------------------------------------------------------------
(* Python values. *)

PyNone == <<"none">>
PyBool(b) == <<"bool", b>>
PyInt(n) == <<"int", n>>
PyStr(s) == <<"str", s>>
PyList(l) == <<"list", l>>

\* bool(v): the truth value Python's 'if' gives a value
Truthy(v) ==
    CASE v[1] = "none" -> FALSE
      [] v[1] = "bool" -> v[2]
      [] v[1] = "int" -> v[2] # 0
      [] OTHER -> Len(v[2]) > 0

\* dict.get(key, default)
Get(d, key, default) == IF key \in DOMAIN d THEN d[key] ELSE default

-----------------------------------------------------------------------------
(* Python strings, as sequences of characters. *)

Digits == <<"0", "1", "2", "3", "4", "5", "6", "7", "8", "9">>
IsDigit(c) == \E i \in 1..10 : Digits[i] = c
DigitVal(c) == (CHOOSE i \in 1..10 : Digits[i] = c) - 1
IsSpace(c) == c \in {" ", "\t"}

\* the decimal digits of n >= 0
RECURSIVE DigitsOf(_)
DigitsOf(n) ==
    IF n < 10 THEN <<Digits[n + 1]>>
    ELSE Append(DigitsOf(n \div 10), Digits[(n % 10) + 1])

\* str(n) for an integer n
IntToStr(n) == IF n < 0 THEN <<"-">> \o DigitsOf(0 - n) ELSE DigitsOf(n)

Zeros(k) == [i \in 1..k |-> "0"]

\* s.strip(): leading and trailing whitespace removed
RECURSIVE LStrip(_)
LStrip(s) == IF s # <<>> /\ IsSpace(Head(s)) THEN LStrip(Tail(s)) ELSE s
RECURSIVE RStrip(_)
RStrip(s) ==
    IF s # <<>> /\ IsSpace(s[Len(s)]) THEN RStrip(SubSeq(s, 1, Len(s) - 1))
    ELSE s
Strip(s) == RStrip(LStrip(s))

\* s.split(sep, maxsplit) for a one-character sep; maxsplit < 0: no limit
RECURSIVE SplitFrom(_, _, _, _)
SplitFrom(s, sep, maxsplit, field) ==
    IF s = <<>> THEN <<field>>
    ELSE IF Head(s) = sep /\ maxsplit # 0
         THEN <<field>> \o SplitFrom(Tail(s), sep, maxsplit - 1, <<>>)
         ELSE SplitFrom(Tail(s), sep, maxsplit, Append(field, Head(s)))
Split(s, sep, maxsplit) == SplitFrom(s, sep, maxsplit, <<>>)

\* sep.join(l)
RECURSIVE Join(_, _)
Join(sep, l) ==
    IF l = <<>> THEN <<>>
    ELSE IF Len(l) = 1 THEN l[1]
    ELSE l[1] \o sep \o Join(sep, Tail(l))

\* the digits of an unsigned decimal literal, as a number
RECURSIVE DigitsValue(_, _)
DigitsValue(s, acc) ==
    IF s = <<>> THEN acc ELSE DigitsValue(Tail(s), acc * 10 + DigitVal(Head(s)))

\* whether int(s) accepts the string s: optional whitespace around an optional
\* sign and at least one digit
IsIntLiteral(s) ==
    LET t == Strip(s)
        u == IF t # <<>> /\ Head(t) \in {"-", "+"} THEN Tail(t) ELSE t
    IN u # <<>> /\ \A i \in 1..Len(u) : IsDigit(u[i])

\* int(s) for a string s that int() accepts
StrToInt(s) ==
    LET t == Strip(s)
        neg == t # <<>> /\ Head(t) = "-"
        u == IF t # <<>> /\ Head(t) \in {"-", "+"} THEN Tail(t) ELSE t
    IN IF neg THEN 0 - DigitsValue(u, 0) ELSE DigitsValue(u, 0)

\* a < b for two strings: Python compares them character by character
CharLess(a, b) ==
    LET order == <<"-", "0", "1", "2", "3", "4", "5", "6", "7", "8", "9">>
        Ord(c) == CHOOSE i \in 1..Len(order) : order[i] = c
    IN Ord(a) < Ord(b)
StrLess(a, b) ==
    \E i \in 1..(Len(b)) :
        /\ \A j \in 1..(i - 1) : j <= Len(a) /\ a[j] = b[j]
        /\ \/ i > Len(a)
           \/ i <= Len(a) /\ CharLess(a[i], b[i])

-----------------------------------------------------------------------------
(* Strings the program names. *)

s_cryptography == <<"c", "r", "y", "p", "t", "o", "g", "r", "a", "p", "h", "y">>
s_google == <<"g", "o", "o", "g", "l", "e">>
s_smarkets == <<"s", "m", "a", "r", "k", "e", "t", "s">>
s_abc == <<"a", "b", "c">>
s_a == <<"a">>
s_b == <<"b">>
s_None == <<"N", "o", "n", "e">>
s_True == <<"T", "r", "u", "e">>
s_False == <<"F", "a", "l", "s", "e">>
s_python == <<"p", "y", "t", "h", "o", "n">>
s_lint_py == <<"l", "i", "n", "t", ".", "p", "y">>
f_pyflakes == <<"-", "-", "p", "y", "f", "l", "a", "k", "e", "s">>
f_builtins == <<"-", "-", "b", "u", "i", "l", "t", "i", "n", "s">>
f_pep8 == <<"-", "-", "p", "e", "p", "8">>
f_pep8_max_line_length ==
    <<"-", "-", "p", "e", "p", "8", "-", "m", "a", "x", "-", "l", "i",
      "n", "e", "-", "l", "e", "n", "g", "t", "h">>
f_pydocstyle == <<"-", "-", "p", "y", "d", "o", "c", "s", "t", "y", "l", "e">>
f_naming == <<"-", "-", "n", "a", "m", "i", "n", "g">>
f_debugger == <<"-", "-", "d", "e", "b", "u", "g", "g", "e", "r">>
f_import_order ==
    <<"-", "-", "i", "m", "p", "o", "r", "t", "-", "o", "r", "d", "e",
      "r">>
f_import_order_style ==
    <<"-", "-", "i", "m", "p", "o", "r", "t", "-", "o", "r", "d", "e",
      "r", "-", "s", "t", "y", "l", "e">>
f_complexity == <<"-", "-", "c", "o", "m", "p", "l", "e", "x", "i", "t", "y">>

-----------------------------------------------------------------------------
(* The settings mappings given to lint() and lint_external(). *)

FlagKeys == {"pep8", "pydocstyle", "pyflakes", "naming", "debugger",
             "import_order"}
SettingKeys == FlagKeys \cup {"import_order_style", "complexity", "builtins",
                              "pep8_max_line_length"}

SettingValues(key) ==
    CASE key \in FlagKeys -> {PyBool(TRUE), PyBool(FALSE)}
      [] key = "import_order_style" ->
            {PyNone, PyStr(s_cryptography), PyStr(s_google), PyStr(s_smarkets)}
      [] key = "complexity" ->
            {PyNone, PyInt(0 - 1), PyInt(3), PyInt(10), PyStr(s_abc)}
      [] key = "builtins" ->
            {PyList(<<>>), PyList(<<s_a>>), PyList(<<s_b>>)}
      [] key = "pep8_max_line_length" -> {PyInt(100)}

AllSettingValues == UNION {SettingValues(k) : k \in SettingKeys}

\* every mapping of at most MaxKeys keys
Settings ==
    {s \in UNION {[D -> AllSettingValues] :
                    D \in {K \in SUBSET SettingKeys : Cardinality(K) <= MaxKeys}} :
        \A k \in DOMAIN s : s[k] \in SettingValues(k)}

\* the empty mapping: every key at its default
DefaultSettings == <<>>

-----------------------------------------------------------------------------
(* What lint() reads from its settings. *)

\* settings.get(flag, default) as a condition: pep8, pyflakes, naming and
\* debugger are on unless disabled, pydocstyle and import_order off unless
\* enabled (lines 196, 205, 231, 247, 253, 263)
FlagDefault(flag) == flag \in {"pep8", "pyflakes", "naming", "debugger"}
Runs(s, flag) == Truthy(Get(s, flag, PyBool(FlagDefault(flag))))

\* int(v), or the exception it raises
IntOf(v) ==
    CASE v[1] = "int" -> <<"int", v[2]>>
      [] v[1] = "bool" -> <<"int", IF v[2] THEN 1 ELSE 0>>
      [] v[1] = "str" ->
            IF IsIntLiteral(v[2]) THEN <<"int", StrToInt(v[2])>>
            ELSE <<"ValueError">>
      [] OTHER -> <<"TypeError">>

\* lines 270-273: int(settings.get('complexity', -1)), -1 on TypeError or
\* ValueError
Complexity(s) ==
    LET c == IntOf(Get(s, "complexity", PyInt(0 - 1)))
    IN IF c[1] = "int" THEN c[2] ELSE 0 - 1

\* ImportOrderLinter.__init__(tree, filename, lines, order_style='cryptography'):
\* the default stands only for an argument that is not passed; 'passed' holds
\* the fourth positional argument when the caller gives one
ImportOrderLinter(passed) ==
    IF passed = <<>> THEN PyStr(s_cryptography) ELSE passed[1]

\* lines 264-265: the style lint() hands to ImportOrderLinter
OrderStyle(s) == ImportOrderLinter(<<Get(s, "import_order_style", PyNone)>>)

\* the names a builtins value adds: set.union(builtins)
NamesOf(v) == IF v[1] = "list" THEN {v[2][i] : i \in 1..Len(v[2])} ELSE {}

-----------------------------------------------------------------------------
(* What the libraries and compile() make of a source text. *)

\* a library's message
LibMessage == <<"W000 reported by a checker">>

\* the diagnostics the libraries report about a source text that has some
Findings == {<<1, 0, LibMessage>>, <<3, 2, LibMessage>>}

\* a source text, as the set of diagnostics the libraries find in it
CleanSource == {}
Sources == {CleanSource, Findings}

\* sequences over S of length at most n
BoundedSeq(S, n) == UNION {[1..k -> S] : k \in 0..n}

\* what one library reports in this call
Outputs == BoundedSeq(lines, MaxReported - Len(warnings))

\* an optional value: <<>> for None, <<v>> for v
None == <<>>
Some(v) == <<v>>
OrZero(o) == IF o = None \/ o[1] = 0 THEN 0 ELSE o[1]

\* the exceptions compile() raises: type name and args.  A SyntaxError's args
\* are (msg,) or (msg, (filename, lineno, offset, text)); a tokenizer's are
\* (msg, (lineno, offset))
Offsets == {None, Some(0), Some(4)}
Exceptions ==
    {<<"error", "TypeError", <<"expected string without null bytes">>>>,
     <<"error", "SyntaxError", <<"encoding problem">>>>}
    \cup {<<"error", t, <<"invalid syntax", <<"", 3, o, "x = '">>>>>> :
            t \in {"SyntaxError", "IndentationError"}, o \in Offsets}
    \cup {<<"error", "SyntaxError", <<"EOF in multi-line statement", <<2, o>>>>>> :
            o \in Offsets}
ParseOutcomes == {<<"tree">>} \cup Exceptions

\* the same with the exception's message alone: 'E901 %s' % exc.args[0]
E901Untyped(exc) ==
    LET args == exc[3]
        offset == IF Len(args) > 1
                  THEN IF Len(args[2]) > 2 THEN SubSeq(args[2], 2, 3)
                       ELSE args[2]
                  ELSE <<1, Some(0)>>
    IN <<offset[1], OrZero(offset[2]), <<"E901", " ", args[1]>>>>

\* lines 216-228: the diagnostic made of an exception
E901(exc) ==
    LET exc_type == exc[2]
        args == exc[3]
        offset == IF Len(args) > 1
                  THEN IF Len(args[2]) > 2 THEN SubSeq(args[2], 2, 3)
                       ELSE args[2]
                  ELSE <<1, Some(0)>>
    IN <<offset[1], OrZero(offset[2]),
         <<"E901", " ", exc_type, ": ", args[1]>>>>

\* the tree-based checkers
TreeCheckers == {"pyflakes", "naming", "debugger", "import_order", "mccabe"}

\* one more occurrence of every diagnostic of 'out'
Count(d, seq) == Cardinality({i \in 1..Len(seq) : seq[i] = d})
Tally(bag, out) ==
    [d \in (DOMAIN bag) \cup {out[i] : i \in 1..Len(out)} |->
        (IF d \in DOMAIN bag THEN bag[d] ELSE 0) + Count(d, out)]

-----------------------------------------------------------------------------
(* The final sort of lint(), line 281:                                     *)
(*   sorted(warnings, key=lambda e: '{0:09d}{1:09d}'.format(e[0], e[1]))   *)

\* the field width of the format specification '09d'
PadWidth == 9

\* '{0:09d}'.format(n): n in decimal, zero-padded to at least PadWidth
\* characters, the sign first; a longer number is not cut
Format09d(n) ==
    LET body == DigitsOf(IF n < 0 THEN 0 - n ELSE n)
        sign == IF n < 0 THEN <<"-">> ELSE <<>>
        have == Len(sign) + Len(body)
        pad == IF have < PadWidth THEN Zeros(PadWidth - have) ELSE <<>>
    IN sign \o pad \o body

\* the same without the padding: '{0}{1}'
SortKeyUnpadded(e) == IntToStr(e[1]) \o IntToStr(e[2])

\* the sort key of a diagnostic (line, column, message)
SortKey(e) == Format09d(e[1]) \o Format09d(e[2])

\* sorted() is stable: an element goes behind every element whose key is
\* not greater than its own
RECURSIVE InsertByKey(_, _)
InsertByKey(s, e) ==
    IF s = <<>> THEN <<e>>
    ELSE IF StrLess(SortKey(e), SortKey(Head(s))) THEN <<e>> \o s
    ELSE <<Head(s)>> \o InsertByKey(Tail(s), e)

RECURSIVE SortedFrom(_, _)
SortedFrom(ws, acc) ==
    IF ws = <<>> THEN acc ELSE SortedFrom(Tail(ws), InsertByKey(acc, Head(ws)))

\* a sort that keeps one diagnostic of each kind
RECURSIVE SortedUnique(_)
SortedUnique(ws) ==
    IF ws = <<>> THEN <<>>
    ELSE LET rest == SortedUnique(SubSeq(ws, 1, Len(ws) - 1))
             e == ws[Len(ws)]
         IN IF \E i \in 1..Len(rest) : rest[i] = e THEN rest
            ELSE InsertByKey(rest, e)

Sorted(ws) == SortedFrom(ws, <<>>)

-----------------------------------------------------------------------------
(* The parts of the state a specification does not use stay as they are    *)
(* before the operation is called.                                         *)

LintIdle ==
    /\ pc = "idle" /\ settings = DefaultSettings /\ lines = CleanSource
    /\ tree = <<"none">> /\ warnings = <<>> /\ reported = <<>>
    /\ invoked = <<>> /\ result = <<>> /\ builtIns = {}
    /\ max_complexity = 0 - 1 /\ calls = 0
ArgIdle ==
    /\ ext_pc = "idle" /\ ext_settings = DefaultSettings /\ arguments = <<>>
    /\ child = <<"none">>
OutIdle ==
    /\ out_pc = "idle" /\ output = <<>> /\ out_idx = 1 /\ ext_warnings = <<>>
    /\ printed = <<>>
WalkIdle ==
    /\ cfg_pc = "idle" /\ fs = {} /\ parent = 0 /\ tail = FALSE
    /\ cfg_args = [filename |-> 1, global_config |-> FALSE,
                   project_config |-> FALSE]
    /\ visited = <<>> /\ read_files = <<>>
OptIdle == parser = <<>> /\ opt_idx = 1 /\ cfg_result = <<>>

-----------------------------------------------------------------------------
(* lint(lines, settings), lines 191-281, one action per checker.           *)

globals == <<builtIns, max_complexity>>

\* a checker's findings go to 'warnings'; the checker is noted with the
\* parameter it was run with and what it found
Collect(checker, parameter, out) ==
    /\ warnings' = warnings \o out
    /\ reported' = Tally(reported, out)
    /\ invoked' = Append(invoked, <<checker, parameter, out>>)

Skip == UNCHANGED <<warnings, reported, invoked>>

\* line 193: a call of lint(l, s)
lint_enter(l, s) ==
    /\ pc \in {"idle", "done"}
    /\ calls < MaxCalls
    /\ calls' = calls + 1
    /\ settings' = s
    /\ lines' = l
    /\ tree' = <<"none">>
    /\ warnings' = <<>>
    /\ reported' = <<>>
    /\ invoked' = <<>>
    /\ result' = <<>>
    /\ pc' = "pep8"
    /\ UNCHANGED <<globals, argVars, outVars, walkVars, optVars>>

\* lines 195-203: pep8, on unless disabled
lint_pep8 ==
    /\ pc = "pep8"
    /\ IF Runs(settings, "pep8")
       THEN \E out \in Outputs :
                Collect("pep8", Get(settings, "pep8_max_line_length", PyNone),
                        out)
       ELSE Skip
    /\ pc' = "pydocstyle"
    /\ UNCHANGED <<settings, lines, tree, result, calls, globals,
                   argVars, outVars, walkVars, optVars>>

\* lines 205-211: pydocstyle, off unless enabled; every column is 0
lint_pydocstyle ==
    /\ pc = "pydocstyle"
    /\ IF Runs(settings, "pydocstyle")
       THEN \E out \in Outputs :
                Collect("pydocstyle", PyNone,
                        [i \in 1..Len(out) |-> <<out[i][1], 0, out[i][3]>>])
       ELSE Skip
    /\ pc' = "compile"
    /\ UNCHANGED <<settings, lines, tree, result, calls, globals,
                   argVars, outVars, walkVars, optVars>>

\* the same with the tree-based checkers run whatever compile() did
lint_compile_then_checkers ==
    /\ pc = "compile"
    /\ \E outcome \in ParseOutcomes :
        /\ tree' = outcome
        /\ IF outcome[1] = "error"
           THEN /\ warnings' = Append(warnings, E901(outcome))
                /\ reported' = Tally(reported, <<E901(outcome)>>)
           ELSE UNCHANGED <<warnings, reported>>
        /\ pc' = "pyflakes"
    /\ UNCHANGED <<settings, lines, invoked, result, calls, builtIns,
                   max_complexity, argVars, outVars, walkVars, optVars>>

\* lines 213-228: compile(); an exception becomes one diagnostic and the
\* tree-based checkers are passed over
lint_compile ==
    /\ pc = "compile"
    /\ \E outcome \in ParseOutcomes :
        /\ tree' = outcome
        /\ IF outcome[1] = "error"
           THEN /\ warnings' = Append(warnings, E901(outcome))
                /\ reported' = Tally(reported, <<E901(outcome)>>)
                /\ pc' = "sort"
           ELSE /\ UNCHANGED <<warnings, reported>>
                /\ pc' = "pyflakes"
    /\ UNCHANGED <<settings, lines, invoked, result, calls, globals,
                   argVars, outVars, walkVars, optVars>>

\* w.messages.sort(key=lambda m: m.lineno), line 239: stable, by line
RECURSIVE SortByLineno(_)
SortByLineno(ms) ==
    IF ms = <<>> THEN <<>>
    ELSE LET rest == SortByLineno(SubSeq(ms, 1, Len(ms) - 1))
             m == ms[Len(ms)]
             before == SelectSeq(rest, LAMBDA x : x[1] <= m[1])
             after == SelectSeq(rest, LAMBDA x : x[1] > m[1])
         IN before \o <<m>> \o after

\* lines 235-237 without the union: the class attribute takes the call's names
ReplacedBuiltIns(known, builtins) ==
    IF Truthy(builtins) THEN NamesOf(builtins) ELSE known

\* lines 232-237: Checker.builtIns after the call's builtins are added
ExtendedBuiltIns(known, builtins) ==
    IF Truthy(builtins) THEN known \cup NamesOf(builtins) ELSE known

\* lines 231-244: pyflakes, on unless disabled
lint_pyflakes ==
    /\ pc = "pyflakes"
    /\ IF Runs(settings, "pyflakes")
       THEN /\ builtIns' = ExtendedBuiltIns(builtIns,
                                            Get(settings, "builtins", PyNone))
            /\ \E out \in Outputs :
                   Collect("pyflakes", builtIns', SortByLineno(out))
       ELSE Skip /\ UNCHANGED builtIns
    /\ pc' = "naming"
    /\ UNCHANGED <<settings, lines, tree, result, calls, max_complexity,
                   argVars, outVars, walkVars, optVars>>

\* lines 246-250: pep8-naming, on unless disabled
lint_naming ==
    /\ pc = "naming"
    /\ IF Runs(settings, "naming")
       THEN \E out \in Outputs : Collect("naming", PyNone, out)
       ELSE Skip
    /\ pc' = "debugger"
    /\ UNCHANGED <<settings, lines, tree, result, calls, globals,
                   argVars, outVars, walkVars, optVars>>

\* lines 252-260: flake8-debugger, on unless disabled
lint_debugger ==
    /\ pc = "debugger"
    /\ IF Runs(settings, "debugger")
       THEN \E out \in Outputs : Collect("debugger", PyNone, out)
       ELSE Skip
    /\ pc' = "import_order"
    /\ UNCHANGED <<settings, lines, tree, result, calls, globals,
                   argVars, outVars, walkVars, optVars>>

\* lines 262-267: flake8-import-order, off unless enabled
lint_import_order ==
    /\ pc = "import_order"
    /\ IF Runs(settings, "import_order")
       THEN \E out \in Outputs :
                Collect("import_order", OrderStyle(settings), out)
       ELSE Skip
    /\ pc' = "complexity"
    /\ UNCHANGED <<settings, lines, tree, result, calls, globals,
                   argVars, outVars, walkVars, optVars>>

\* lines 269-279: mccabe, run for a threshold above -1
lint_complexity ==
    /\ pc = "complexity"
    /\ LET complexity == Complexity(settings)
       IN IF complexity > 0 - 1
          THEN /\ max_complexity' = complexity
               /\ \E out \in Outputs :
                      Collect("mccabe", PyInt(complexity), out)
          ELSE Skip /\ UNCHANGED max_complexity
    /\ pc' = "sort"
    /\ UNCHANGED <<settings, lines, tree, result, calls, builtIns,
                   argVars, outVars, walkVars, optVars>>

\* line 281: the sorted list is returned
lint_return ==
    /\ pc = "sort"
    /\ result' = Sorted(warnings)
    /\ pc' = "done"
    /\ UNCHANGED <<settings, lines, tree, warnings, reported, invoked, calls,
                   globals, argVars, outVars, walkVars, optVars>>

lint_steps ==
    \/ lint_pep8
    \/ lint_pydocstyle
    \/ lint_compile
    \/ lint_pyflakes
    \/ lint_naming
    \/ lint_debugger
    \/ lint_import_order
    \/ lint_complexity
    \/ lint_return

(* One call of lint() in a fresh process, on any source text. *)
FirstCall ==
    \E l \in Sources, s \in Settings : pc = "idle" /\ lint_enter(l, s)

Init == LintIdle /\ ArgIdle /\ OutIdle /\ WalkIdle /\ OptIdle
Next == FirstCall \/ lint_steps
Spec == Init /\ [][Next]_vars

(* Up to MaxCalls calls of lint() in one process, on source texts the      *)
(* libraries find nothing in.                                              *)
AnyCall == \E s \in Settings : lint_enter(CleanSource, s)

NextProcess == AnyCall \/ lint_steps
SpecProcess == Init /\ [][NextProcess]_vars

(* The final sort alone, on any list of at most MaxWarnings diagnostics.   *)
SortLines == {2, 10, 999999999, 1000000000}
SortColumns == {0, 7, 1000000000}
SortDiagnostics == {<<l, c, LibMessage>> : l \in SortLines, c \in SortColumns}

InitSort ==
    /\ pc = "sort" /\ settings = DefaultSettings /\ lines = CleanSource
    /\ tree = <<"tree">> /\ reported = <<>> /\ invoked = <<>> /\ result = <<>>
    /\ builtIns = {} /\ max_complexity = 0 - 1 /\ calls = 1
    /\ warnings \in BoundedSeq(SortDiagnostics, MaxWarnings)
    /\ ArgIdle /\ OutIdle /\ WalkIdle /\ OptIdle
NextSort == lint_return
SpecSort == InitSort /\ [][NextSort]_vars

-----------------------------------------------------------------------------
(* lint_external(): the command line, lines 288-331.                       *)

\* the default of settings.get('pep8_max_line_length', 79), line 302, and of
\* the child's --pep8-max-line-length, line 391
DefaultMaxLineLength == 79

\* str(v)
StrOf(v) ==
    CASE v[1] = "int" -> IntToStr(v[2])
      [] v[1] = "str" -> v[2]
      [] v[1] = "bool" -> (IF v[2] THEN s_True ELSE s_False)
      [] v[1] = "none" -> s_None
      [] OTHER -> <<"[", "]">>

\* the items of a builtins value, for ','.join(builtins)
ItemsOf(v) == IF v[1] = "list" THEN v[2] ELSE <<>>

BuildArguments(s, interpreter, linter) ==
    LET builtins == Get(s, "builtins", PyNone)
        import_order_style == Get(s, "import_order_style", PyNone)
        complexity == Get(s, "complexity", PyInt(0 - 1))
    IN <<interpreter, linter>>
       \o (IF Runs(s, "pyflakes")
           THEN <<f_pyflakes>>
                \o (IF Truthy(builtins)
                    THEN <<f_builtins, Join(<<",">>, ItemsOf(builtins))>>
                    ELSE <<>>)
           ELSE <<>>)
       \o (IF Runs(s, "pep8")
           THEN <<f_pep8, f_pep8_max_line_length,
                  StrOf(Get(s, "pep8_max_line_length",
                            PyInt(DefaultMaxLineLength)))>>
           ELSE <<>>)
       \o (IF Runs(s, "pydocstyle") THEN <<f_pydocstyle>> ELSE <<>>)
       \o (IF Runs(s, "naming") THEN <<f_naming>> ELSE <<>>)
       \o (IF Runs(s, "debugger") THEN <<f_debugger>> ELSE <<>>)
       \o (IF Runs(s, "import_order") THEN <<f_import_order>> ELSE <<>>)
       \o (IF import_order_style \in {PyStr(s_cryptography), PyStr(s_google)}
           THEN <<f_import_order_style, import_order_style[2]>>
           ELSE <<f_import_order_style, s_cryptography>>)
       \o <<f_complexity, StrOf(complexity)>>

-----------------------------------------------------------------------------
(* The child: the argument parser of the main program, lines 371-397.      *)

\* the parser's options: option string, key of the namespace, kind
ParserOptions ==
    <<<<f_pyflakes, "pyflakes", "store_true">>,
      <<f_builtins, "builtins", "str">>,
      <<f_pep8, "pep8", "store_true">>,
      <<f_pydocstyle, "pydocstyle", "store_true">>,
      <<f_naming, "naming", "store_true">>,
      <<f_debugger, "debugger", "store_true">>,
      <<f_import_order, "import_order", "store_true">>,
      <<f_import_order_style, "import_order_style", "str">>,
      <<f_complexity, "complexity", "int">>,
      <<f_pep8_max_line_length, "pep8_max_line_length", "int">>>>

\* the namespace before any argument is read: False for a store_true option,
\* the default for --pep8-max-line-length, None for the others
NamespaceDefaults ==
    [key \in {ParserOptions[i][2] : i \in 1..Len(ParserOptions)} |->
        LET row == CHOOSE i \in 1..Len(ParserOptions) : ParserOptions[i][2] = key
        IN CASE ParserOptions[row][3] = "store_true" -> PyBool(FALSE)
             [] key = "pep8_max_line_length" -> PyInt(DefaultMaxLineLength)
             [] OTHER -> PyNone]

\* argparse takes an argument that starts with '-' for an option string,
\* unless it is a negative number
IsNegativeNumber(t) ==
    Len(t) > 1 /\ t[1] = "-" /\ \A i \in 2..Len(t) : IsDigit(t[i])
IsOptionString(t) == t # <<>> /\ t[1] = "-" /\ ~IsNegativeNumber(t)

\* parse_args(argv): the namespace, or the exit with a usage error
RECURSIVE ParseArgs(_, _)
ParseArgs(argv, namespace) ==
    IF argv = <<>> THEN <<"settings", namespace>>
    ELSE LET rows == {i \in 1..Len(ParserOptions) : ParserOptions[i][1] = argv[1]}
         IN IF rows = {} THEN <<"usage_error">>
            ELSE LET row == ParserOptions[CHOOSE i \in rows : TRUE]
                     key == row[2]
                 IN IF row[3] = "store_true"
                    THEN ParseArgs(Tail(argv),
                                   [namespace EXCEPT ![key] = PyBool(TRUE)])
                    ELSE IF Len(argv) < 2 \/ IsOptionString(argv[2])
                    THEN <<"usage_error">>
                    ELSE IF row[3] = "int"
                    THEN IF IsIntLiteral(argv[2])
                         THEN ParseArgs(SubSeq(argv, 3, Len(argv)),
                                  [namespace EXCEPT
                                      ![key] = PyInt(StrToInt(argv[2]))])
                         ELSE <<"usage_error">>
                    ELSE ParseArgs(SubSeq(argv, 3, Len(argv)),
                                   [namespace EXCEPT ![key] = PyStr(argv[2])])

\* lines 394-397: the child's settings, builtins split at the commas
ChildSettings(argv) ==
    LET parsed == ParseArgs(argv, NamespaceDefaults)
    IN IF parsed[1] = "settings" /\ Truthy(parsed[2]["builtins"])
       THEN <<"settings",
              [parsed[2] EXCEPT
                  !["builtins"] = PyList(Split(parsed[2]["builtins"][2], ",",
                                               0 - 1))]>>
       ELSE parsed

\* what lint() does under a settings mapping: each checker with the
\* parameter it is run with, or "off"
LintPlan(s) ==
    [checker \in FlagKeys \cup {"mccabe"} |->
        CASE checker = "mccabe" ->
                (IF Complexity(s) > 0 - 1 THEN <<"on", PyInt(Complexity(s))>>
                 ELSE <<"off">>)
          [] ~Runs(s, checker) -> <<"off">>
          [] checker = "pep8" ->
                <<"on", Get(s, "pep8_max_line_length", PyNone)>>
          [] checker = "pyflakes" ->
                <<"on", ExtendedBuiltIns({}, Get(s, "builtins", PyNone))>>
          [] checker = "import_order" -> <<"on", OrderStyle(s)>>
          [] OTHER -> <<"on">>]

\* line 289: lint_external(lines, s, interpreter, linter) is called
external_enter ==
    /\ ext_pc = "idle"
    /\ \E s \in Settings : ext_settings' = s
    /\ ext_pc' = "build"
    /\ UNCHANGED <<arguments, child, lintVars, outVars, walkVars, optVars>>

\* lines 288-331: the command line is built
external_build ==
    /\ ext_pc = "build"
    /\ arguments' = BuildArguments(ext_settings, s_python, s_lint_py)
    /\ ext_pc' = "spawn"
    /\ UNCHANGED <<ext_settings, child, lintVars, outVars, walkVars, optVars>>

\* lines 342-349 and 371-397: the child is run with arguments[1:] as its
\* argv and parses sys.argv[1:]
external_spawn ==
    /\ ext_pc = "spawn"
    /\ child' = ChildSettings(SubSeq(arguments, 3, Len(arguments)))
    /\ ext_pc' = "done"
    /\ UNCHANGED <<ext_settings, arguments, lintVars, outVars, walkVars,
                   optVars>>

NextArgs == external_enter \/ external_build \/ external_spawn
SpecArgs == Init /\ [][NextArgs]_vars

\* C6: the child's settings make lint() run the same checkers with the same
\* parameters as the caller's settings make it run in-process.
C6_ChildMirrorsSettings ==
    ext_pc = "done" =>
        /\ child[1] = "settings"
        /\ LintPlan(child[2]) = LintPlan(ext_settings)

-----------------------------------------------------------------------------
(* lint_external(): the child's output, lines 349-364.                     *)

\* a byte that is no part of any UTF-8 text
BadByte == "\\xff"

\* the fields a line of child output is made of
OutputFields == {<<"3">>, <<"a", " ">>, <<>>, <<BadByte>>}

\* the lines the child prints: up to MaxFields fields with colons between
OutputLines ==
    {Join(<<":">>, fields) :
        fields \in BoundedSeq(OutputFields, MaxFields) \ {<<>>}}

\* the child's output: each line with its line end
RECURSIVE Written(_)
Written(ls) ==
    IF ls = <<>> THEN <<>> ELSE ls[1] \o <<"\n">> \o Written(Tail(ls))

\* result.splitlines(): the lines without their line ends, and no empty last
\* line after a final line end
SplitLines(bytes) ==
    LET pieces == Split(bytes, "\n", 0 - 1)
    IN IF pieces[Len(pieces)] = <<>> THEN SubSeq(pieces, 1, Len(pieces) - 1)
       ELSE pieces

\* bytes.decode('utf-8') raises UnicodeDecodeError on a byte that is no UTF-8
Decodable(bytes) == \A i \in 1..Len(bytes) : bytes[i] # BadByte

\* line 349: the child has run and its whole output is read
output_communicate ==
    /\ out_pc = "idle"
    /\ \E ls \in BoundedSeq(OutputLines, MaxLines) : output' = Written(ls)
    /\ out_pc' = "parse"
    /\ UNCHANGED <<out_idx, ext_warnings, printed, lintVars, argVars,
                   walkVars, optVars>>

\* lines 352-361: one turn of the loop over result.splitlines()
output_line ==
    /\ out_pc = "parse"
    /\ out_idx <= Len(SplitLines(output))
    /\ LET raw == SplitLines(output)[out_idx]
       IN IF ~Decodable(raw)
          THEN \* line 353: the decode is outside the try; the error leaves
               \* lint_external()
               /\ out_pc' = "raised"
               /\ UNCHANGED <<out_idx, ext_warnings, printed>>
          ELSE LET line == Strip(raw)
                   warning == Split(line, ":", 2)
               IN /\ IF /\ Len(warning) = 3
                        /\ IsIntLiteral(warning[1])
                        /\ IsIntLiteral(warning[2])
                     THEN /\ ext_warnings' =
                               Append(ext_warnings,
                                      <<StrToInt(warning[1]),
                                        StrToInt(warning[2]), warning[3]>>)
                          /\ UNCHANGED printed
                     ELSE /\ printed' = Append(printed, line)
                          /\ UNCHANGED ext_warnings
                  /\ out_idx' = out_idx + 1
                  /\ UNCHANGED out_pc
    /\ UNCHANGED <<output, lintVars, argVars, walkVars, optVars>>

\* line 364: the list is returned as it is
output_return ==
    /\ out_pc = "parse"
    /\ out_idx > Len(SplitLines(output))
    /\ out_pc' = "done"
    /\ UNCHANGED <<output, out_idx, ext_warnings, printed, lintVars, argVars,
                   walkVars, optVars>>

NextOutput == output_communicate \/ output_line \/ output_return
SpecOutput == Init /\ [][NextOutput]_vars

\* a line of the form line:col:message, the first two fields integers
ColonsOf(l) == {i \in 1..Len(l) : l[i] = ":"}
FirstColon(l) == CHOOSE i \in ColonsOf(l) : \A j \in ColonsOf(l) : i <= j
SecondColon(l) ==
    CHOOSE i \in ColonsOf(l) \ {FirstColon(l)} :
        \A j \in ColonsOf(l) \ {FirstColon(l)} : i <= j
IsDiagnosticLine(l) ==
    /\ Cardinality(ColonsOf(l)) >= 2
    /\ IsIntLiteral(SubSeq(l, 1, FirstColon(l) - 1))
    /\ IsIntLiteral(SubSeq(l, FirstColon(l) + 1, SecondColon(l) - 1))
DiagnosticOf(l) ==
    <<StrToInt(SubSeq(l, 1, FirstColon(l) - 1)),
      StrToInt(SubSeq(l, FirstColon(l) + 1, SecondColon(l) - 1)),
      SubSeq(l, SecondColon(l) + 1, Len(l))>>
RECURSIVE DiagnosticsOf(_)
DiagnosticsOf(ls) ==
    IF ls = <<>> THEN <<>>
    ELSE (IF IsDiagnosticLine(ls[1]) THEN <<DiagnosticOf(ls[1])>> ELSE <<>>)
         \o DiagnosticsOf(Tail(ls))

\* C3: lint_external() goes through every line of the output and returns, in
\* the child's order, the tuple (int(line), int(col), message) of every line
\* of the form line:col:message, the message being all that follows the
\* second colon; every other line is printed and left out.
C3_OutputParsedLineByLine ==
    /\ out_pc # "raised"
    /\ out_pc = "done" =>
        /\ ext_warnings = DiagnosticsOf(SplitLines(output))
        /\ Len(printed) + Len(ext_warnings) = Len(SplitLines(output))

-----------------------------------------------------------------------------
(* load_flake8_config(): the search for config files, lines 154-166.       *)
(* A path is its depth below the root: 0 is the root directory, the target *)
(* file of depth d lies in the directory of depth d - 1.                   *)

\* line 54
CONFIG_FILES == <<"setup.cfg", "tox.ini", ".pep8">>

\* DEFAULT_CONFIG_FILE, lines 47-53, as a file outside the tree
DEFAULT_CONFIG_FILE == <<0 - 1, "flake8">>

\* os.path.split(path): the parent and the last component, which is empty
\* for the root
PathSplit(path) == IF path > 0 THEN <<path - 1, TRUE>> ELSE <<0, FALSE>>

\* parser.read() given one name: the first of the names that exists
ReadFirstAt(files, path) ==
    LET all == SelectSeq(CONFIG_FILES, LAMBDA fn : <<path, fn>> \in files)
    IN IF all = <<>> THEN <<>> ELSE <<<<path, all[1]>>>>

\* parser.read([os.path.join(parent, fn) for fn in CONFIG_FILES]), line 164:
\* every file of the list that exists is read, in the order of the list, and
\* the files read are returned
ReadAt(files, path) ==
    LET all == SelectSeq(CONFIG_FILES, LAMBDA fn : <<path, fn>> \in files)
    IN [i \in 1..Len(all) |-> <<path, all[i]>>]

\* the config files there can be: in the directories above the target file,
\* and the user's global file
FileSystems(depth) ==
    SUBSET ({<<d, CONFIG_FILES[i]>> : d \in 0..(depth - 1), i \in 1..3}
            \cup {DEFAULT_CONFIG_FILE})

\* line 149: load_flake8_config(filename, global_config, project_config)
config_enter ==
    /\ cfg_pc = "idle"
    /\ \E depth \in 1..MaxDepth, g \in BOOLEAN, p \in BOOLEAN :
        /\ cfg_args' = [filename |-> depth, global_config |-> g,
                        project_config |-> p]
        /\ fs' \in FileSystems(depth)
    /\ cfg_pc' = "global"
    /\ UNCHANGED <<parent, tail, visited, read_files, lintVars, argVars,
                   outVars, optVars>>

\* lines 156-158: the global config
config_global ==
    /\ cfg_pc = "global"
    /\ IF cfg_args.global_config /\ DEFAULT_CONFIG_FILE \in fs
       THEN read_files' = Append(read_files, DEFAULT_CONFIG_FILE)
       ELSE UNCHANGED read_files
    /\ cfg_pc' = "project"
    /\ UNCHANGED <<cfg_args, fs, parent, tail, visited, lintVars, argVars,
                   outVars, optVars>>

\* lines 161-162: parent = tail = os.path.abspath(filename)
config_project ==
    /\ cfg_pc = "project"
    /\ IF cfg_args.project_config
       THEN /\ parent' = cfg_args.filename
            /\ tail' = TRUE
            /\ cfg_pc' = "walk"
       ELSE /\ UNCHANGED <<parent, tail>>
            /\ cfg_pc' = "walked"
    /\ UNCHANGED <<cfg_args, fs, visited, read_files, lintVars, argVars,
                   outVars, optVars>>

\* lines 163-166: one turn of the while loop
config_walk ==
    /\ cfg_pc = "walk"
    /\ IF tail
       THEN LET found == ReadAt(fs, parent)
            IN /\ visited' = Append(visited, parent)
               /\ read_files' = read_files \o found
               /\ IF found # <<>>
                  THEN /\ cfg_pc' = "walked"
                       /\ UNCHANGED <<parent, tail>>
                  ELSE /\ parent' = PathSplit(parent)[1]
                       /\ tail' = PathSplit(parent)[2]
                       /\ UNCHANGED cfg_pc
       ELSE /\ cfg_pc' = "walked"
            /\ UNCHANGED <<parent, tail, visited, read_files>>
    /\ UNCHANGED <<cfg_args, fs, lintVars, argVars, outVars, optVars>>

NextWalk == config_enter \/ config_global \/ config_project \/ config_walk
SpecWalk == Init /\ [][NextWalk]_vars

\* the project files read, and the directories that hold a recognised file
ProjectFilesRead == SelectSeq(read_files, LAMBDA f : f # DEFAULT_CONFIG_FILE)
HoldsConfig(d) == \E i \in 1..3 : <<d, CONFIG_FILES[i]>> \in fs
\* the paths from p up to the path 'last'
Upward(p, last) == [i \in 1..(p - last + 1) |-> p - i + 1]
Walked == cfg_pc = "walked" /\ cfg_args.project_config

\* C9, as stated: the walk goes upward to the root, ends, stops at the nearest
\* directory that holds a recognised file, and reads there only the first of
\* setup.cfg, tox.ini, .pep8 that exists; it reads nothing when no directory
\* holds one.
C9_OnlyFirstFileIsRead ==
    /\ Len(visited) <= cfg_args.filename + 1
    /\ Walked =>
        IF \E d \in 0..cfg_args.filename : HoldsConfig(d)
        THEN LET near == CHOOSE d \in 0..cfg_args.filename :
                            /\ HoldsConfig(d)
                            /\ \A e \in (d + 1)..cfg_args.filename :
                                  ~HoldsConfig(e)
                 first == CHOOSE i \in 1..3 :
                            /\ <<near, CONFIG_FILES[i]>> \in fs
                            /\ \A j \in 1..(i - 1) :
                                  <<near, CONFIG_FILES[j]>> \notin fs
             IN /\ visited = Upward(cfg_args.filename, near)
                /\ ProjectFilesRead = <<<<near, CONFIG_FILES[first]>>>>
        ELSE /\ visited = Upward(cfg_args.filename, 0)
             /\ ProjectFilesRead = <<>>

\* C9, amended: the walk probes the path of the file and then every directory
\* above it in order, at most once each, and stops at the nearest one that
\* holds a recognised file; there it reads every recognised file that exists,
\* in the order setup.cfg, tox.ini, .pep8, and nothing from a directory above;
\* it reads nothing when no directory holds one, after probing the root.
C9_EveryFileOfNearestDirectoryIsRead ==
    /\ Len(visited) <= cfg_args.filename + 1
    /\ \A i \in 1..Len(visited) : visited[i] = cfg_args.filename - i + 1
    /\ Walked =>
        IF \E d \in 0..cfg_args.filename : HoldsConfig(d)
        THEN LET near == CHOOSE d \in 0..cfg_args.filename :
                            /\ HoldsConfig(d)
                            /\ \A e \in (d + 1)..cfg_args.filename :
                                  ~HoldsConfig(e)
             IN /\ visited = Upward(cfg_args.filename, near)
                /\ \A i \in 1..Len(ProjectFilesRead) :
                      ProjectFilesRead[i][1] = near
                /\ [i \in 1..Len(ProjectFilesRead) |-> ProjectFilesRead[i][2]]
                      = SelectSeq(CONFIG_FILES,
                                  LAMBDA fn : <<near, fn>> \in fs)
        ELSE /\ visited = Upward(cfg_args.filename, 0)
             /\ ProjectFilesRead = <<>>

\* the file's directory holds tox.ini and .pep8, the root holds setup.cfg:
\* both files of the directory are read and the root's is not
C9_Witness ==
    /\ Walked /\ cfg_args.filename = 2
    /\ <<1, "tox.ini">> \in fs /\ <<1, ".pep8">> \in fs
    /\ <<1, "setup.cfg">> \notin fs /\ <<0, "setup.cfg">> \in fs
    /\ ProjectFilesRead = <<<<1, "tox.ini">>, <<1, ".pep8">>>>

-----------------------------------------------------------------------------
(* load_flake8_config(): the options of section [flake8], lines 168-188.   *)

o_ignore == <<"i", "g", "n", "o", "r", "e">>
o_select == <<"s", "e", "l", "e", "c", "t">>
o_exclude == <<"e", "x", "c", "l", "u", "d", "e">>
o_max_line_length ==
    <<"m", "a", "x", "_", "l", "i", "n", "e", "_", "l", "e", "n", "g", "t", "h">>

\* lines 170-175: option of the file, key of the result, type
ConfigOptions ==
    <<<<o_ignore, "ignore", "list">>,
      <<o_select, "select", "list">>,
      <<o_exclude, "ignore_files", "list">>,
      <<o_max_line_length, "pep8_max_line_length", "int">>>>

\* config.replace('_', '-')
Hyphenated(config) ==
    [i \in 1..Len(config) |-> IF config[i] = "_" THEN "-" ELSE config[i]]

\* the values an option of the file holds
ListValues == {<<>>, <<"E", ",", "W">>}
IntValues == {<<>>, <<"9", "9">>, <<"x">>}
OptionValues(name) ==
    IF Hyphenated(name) = Hyphenated(o_max_line_length) THEN IntValues
    ELSE ListValues
OptionNames == {o_ignore, o_select, o_exclude, o_max_line_length,
                Hyphenated(o_max_line_length)}

\* what the parser holds after its reads: whether there is a section
\* [flake8], and the options of that section
ParserStates ==
    {[section |-> FALSE, options |-> <<>>]}
    \cup {[section |-> TRUE, options |-> o] :
            o \in {f \in UNION {[D -> ListValues \cup IntValues] :
                                   D \in SUBSET OptionNames} :
                      \A n \in DOMAIN f : f[n] \in OptionValues(n)}}

has_option(p, option) == option \in DOMAIN p.options

\* lines 177-178 without the second spelling
OptionAsWritten(p, config) == config

\* lines 177-178: the name looked up is the one of the table when the
\* section has that option, and the name with hyphens otherwise
OptionLookedUp(p, config) ==
    IF ~has_option(p, config) THEN Hyphenated(config) ELSE config

\* lines 176-187: one row of the table
config_option ==
    /\ cfg_pc = "extract"
    /\ parser.section
    /\ opt_idx <= Len(ConfigOptions)
    /\ LET config == OptionLookedUp(parser, ConfigOptions[opt_idx][1])
           plugin == ConfigOptions[opt_idx][2]
           option_type == ConfigOptions[opt_idx][3]
           Put(value) ==
               [k \in (DOMAIN cfg_result) \cup {plugin} |->
                   IF k = plugin THEN value ELSE cfg_result[k]]
       IN IF has_option(parser, config)
          THEN LET option_value == Strip(parser.options[config])
               IN IF option_value = <<>>
                  THEN UNCHANGED <<cfg_result, cfg_pc>>
                  ELSE IF option_type = "list"
                  THEN /\ cfg_result' =
                            Put(PyList(Split(option_value, ",", 0 - 1)))
                       /\ UNCHANGED cfg_pc
                  ELSE \* parser.getint(): int() of the value, or ValueError
                       IF IsIntLiteral(parser.options[config])
                       THEN /\ cfg_result' =
                                 Put(PyInt(StrToInt(parser.options[config])))
                            /\ UNCHANGED cfg_pc
                       ELSE /\ cfg_pc' = "raised"
                            /\ UNCHANGED cfg_result
          ELSE UNCHANGED <<cfg_result, cfg_pc>>
    /\ opt_idx' = opt_idx + 1
    /\ UNCHANGED <<parser, cfg_args, fs, parent, tail, visited, read_files,
                   lintVars, argVars, outVars>>

\* line 188
config_return ==
    /\ cfg_pc = "extract"
    /\ ~parser.section \/ opt_idx > Len(ConfigOptions)
    /\ cfg_pc' = "done"
    /\ UNCHANGED <<parser, opt_idx, cfg_result, cfg_args, fs, parent, tail,
                   visited, read_files, lintVars, argVars, outVars>>

\* line 168, after the reads, whatever the files held
InitOptions ==
    /\ cfg_pc = "extract" /\ fs = {} /\ parent = 0 /\ tail = FALSE
    /\ cfg_args = [filename |-> 1, global_config |-> TRUE,
                   project_config |-> TRUE]
    /\ visited = <<>> /\ read_files = <<>>
    /\ parser \in ParserStates /\ opt_idx = 1 /\ cfg_result = <<>>
    /\ LintIdle /\ ArgIdle /\ OutIdle
NextOptions == config_option \/ config_return
SpecOptions == InitOptions /\ [][NextOptions]_vars

ResultKeys == {ConfigOptions[i][2] : i \in 1..Len(ConfigOptions)}
HoldsValue(p, option) == has_option(p, option) /\ p.options[option] # <<>>

\* C4, as stated: the result's keys are among the four, and a key is there
\* exactly when section [flake8] holds a non-empty value for its option under
\* the underscore or the hyphen spelling.
C4_KeyIffEitherSpellingHasValue ==
    cfg_pc = "done" =>
        /\ DOMAIN cfg_result \subseteq ResultKeys
        /\ \A i \in 1..Len(ConfigOptions) :
              ConfigOptions[i][2] \in DOMAIN cfg_result
              <=> /\ parser.section
                  /\ \/ HoldsValue(parser, ConfigOptions[i][1])
                     \/ HoldsValue(parser, Hyphenated(ConfigOptions[i][1]))

\* C4, amended: when load_flake8_config() returns, the result's keys are among
\* the four, and a key is there exactly when section [flake8] holds a
\* non-empty value under the one spelling that is looked up: the underscore
\* spelling when the section has that option, even empty, and the hyphen
\* spelling only when it has not.
C4_KeyIffLookedUpSpellingHasValue ==
    cfg_pc = "done" =>
        /\ DOMAIN cfg_result \subseteq ResultKeys
        /\ \A i \in 1..Len(ConfigOptions) :
              ConfigOptions[i][2] \in DOMAIN cfg_result
              <=> /\ parser.section
                  /\ IF has_option(parser, ConfigOptions[i][1])
                     THEN HoldsValue(parser, ConfigOptions[i][1])
                     ELSE HoldsValue(parser, Hyphenated(ConfigOptions[i][1]))

\* only max-line-length, with hyphens, is set, beside an empty ignore: the
\* result holds pep8_max_line_length and no ignore
C4_Witness ==
    /\ cfg_pc = "done" /\ parser.section
    /\ ~has_option(parser, o_max_line_length)
    /\ HoldsValue(parser, Hyphenated(o_max_line_length))
    /\ has_option(parser, o_ignore) /\ ~HoldsValue(parser, o_ignore)
    /\ DOMAIN cfg_result = {"pep8_max_line_length"}
    /\ cfg_result["pep8_max_line_length"] = PyInt(99)

-----------------------------------------------------------------------------
(* Properties of lint().                                                   *)

Returned == pc = "done"
Failed == tree[1] = "error"

\* a list in non-decreasing order of line and, within a line, of column
InLineColumnOrder(seq) ==
    \A i, j \in 1..Len(seq) :
        i < j => \/ seq[i][1] < seq[j][1]
                 \/ seq[i][1] = seq[j][1] /\ seq[i][2] <= seq[j][2]

\* a number '09d' leaves at its width
FitsPad(n) == n >= 0 /\ Len(DigitsOf(n)) <= PadWidth

\* C1, as stated: whatever the lines and columns, including numbers of more
\* than 9 digits, the returned list is in order of line and then of column.
C1_SortedForEveryNumber == Returned => InLineColumnOrder(result)

\* C1, amended: when every line and column has at most 9 digits, the returned
\* list is in order of line and, within a line, of column.
C1_SortedUpToNineDigits ==
    (Returned /\ \A i \in 1..Len(result) :
                    FitsPad(result[i][1]) /\ FitsPad(result[i][2]))
    => InLineColumnOrder(result)

\* a list of three diagnostics of at most 9 digits that the sort had to reorder
C1_Witness ==
    /\ Returned /\ Len(result) = 3 /\ result # warnings
    /\ \A i \in 1..3 : FitsPad(result[i][1]) /\ FitsPad(result[i][2])
    /\ warnings[1][1] > warnings[3][1]

\* the diagnostics lint() made of an exception
IsE901(d) == d[3][1] = "E901"
E901sOf(seq) == SelectSeq(seq, IsE901)

\* C2, as stated: with default settings and a source that does not parse,
\* lint() returns exactly one diagnostic in all, an E901 with the exception's
\* type name.
C2_ExactlyOneDiagnostic ==
    (Returned /\ Failed /\ settings = DefaultSettings)
    => /\ Len(result) = 1
       /\ result[1][3][1] = "E901" /\ result[1][3][3] = tree[2]

\* C2, amended: with default settings and a source that does not parse, lint()
\* returns exactly one E901 diagnostic, whose message begins with E901 and the
\* exception's type name, together with pep8's diagnostics (pep8 is the only
\* checker that ran); the list holds one diagnostic when pep8 reports none.
C2_OneE901BesidePep8 ==
    (Returned /\ Failed /\ settings = DefaultSettings)
    => /\ Len(E901sOf(result)) = 1
       /\ E901sOf(result)[1][3][1] = "E901"
       /\ E901sOf(result)[1][3][3] = tree[2]
       /\ Len(invoked) = 1 /\ invoked[1][1] = "pep8"
       /\ Len(result) = 1 + Len(invoked[1][3])

\* default settings, no parse, and pep8 had two diagnostics of its own
C2_Witness ==
    /\ Returned /\ Failed /\ settings = DefaultSettings
    /\ Len(result) = 3 /\ tree[2] = "IndentationError"

\* C5: the returned list holds every diagnostic as often as it was appended
\* during the run: nothing is dropped and nothing is merged.
C5_NothingDroppedOrMerged ==
    Returned =>
        \A d \in (DOMAIN reported) \cup {result[i] : i \in 1..Len(result)} :
            Count(d, result) = (IF d \in DOMAIN reported THEN reported[d] ELSE 0)

\* two checkers reported the same diagnostic and it was returned twice
C5_Witness ==
    /\ Returned /\ Len(invoked) >= 2
    /\ \E d \in DOMAIN reported : reported[d] = 2 /\ Count(d, result) = 2
    /\ \E i, j \in 1..Len(invoked) :
          i # j /\ Len(invoked[i][3]) = 1 /\ invoked[i][3] = invoked[j][3]

\* the position an exception reports: (1, 0) without one, column 0 for none
ReportedPosition(exc) ==
    LET args == exc[3]
    IN IF Len(args) = 1 THEN <<1, 0>>
       ELSE LET where == IF Len(args[2]) = 4 THEN <<args[2][2], args[2][3]>>
                         ELSE args[2]
            IN <<where[1], IF where[2] = None THEN 0 ELSE where[2][1]>>

\* C8: once compile() has raised, lint() goes on to return; its list holds
\* exactly one E901 diagnostic, at the position the exception reports, and no
\* tree-based checker has run, whatever the settings.
C8_SyntaxErrorBecomesOneDiagnostic ==
    Failed =>
        /\ pc \in {"sort", "done"}
        /\ Len(E901sOf(warnings)) = 1
        /\ <<E901sOf(warnings)[1][1], E901sOf(warnings)[1][2]>>
              = ReportedPosition(tree)
        /\ \A i \in 1..Len(invoked) : invoked[i][1] \notin TreeCheckers
        /\ Returned => E901sOf(result) = E901sOf(warnings)

\* a failed parse with a missing column, under settings that ask for the
\* import-order checker
C8_Witness ==
    /\ Returned /\ Failed
    /\ Len(tree[3]) = 2 /\ Len(tree[3][2]) = 4 /\ tree[3][2][3] = None
    /\ Runs(settings, "import_order")
    /\ result[Len(result)][2] = 0

\* C10: the import-order checker runs with the style of the settings, and with
\* 'cryptography' when the settings carry none (key absent or None).
C10_DefaultStyleIsCryptography ==
    \A i \in 1..Len(invoked) :
        invoked[i][1] = "import_order" =>
            invoked[i][2] =
                (IF Get(settings, "import_order_style", PyNone) = PyNone
                 THEN PyStr(s_cryptography)
                 ELSE settings["import_order_style"])

-----------------------------------------------------------------------------
(* Properties of repeated lint() calls in one process.                     *)

\* C7, as stated: a step of lint() changes no process-wide value but the set
\* of built-in names, and that set only grows.
C7_OnlyBuiltInsChange ==
    [][builtIns \subseteq builtIns' /\ max_complexity' = max_complexity]_vars

\* C7, amended: the set of built-in names only grows, and only by the names
\* the call's settings give to an enabled pyflakes; the one other process-wide
\* value a call changes is mccabe's max_complexity, which a call with a
\* threshold above -1 overwrites with that threshold.
C7_BuiltInsGrowAndMaxComplexityIsSet ==
    [][/\ builtIns \subseteq builtIns'
       /\ builtIns' # builtIns =>
            /\ pc = "pyflakes"
            /\ builtIns' = builtIns \cup NamesOf(Get(settings, "builtins", PyNone))
       /\ max_complexity' # max_complexity =>
            /\ pc = "complexity"
            /\ max_complexity' = Complexity(settings)
            /\ max_complexity' > 0 - 1]_vars

\* a second call that passes no builtins and no complexity: pyflakes still
\* knows the first call's names and max_complexity is still the first call's
C7_Witness ==
    /\ Returned /\ calls = 2
    /\ "builtins" \notin DOMAIN settings /\ "complexity" \notin DOMAIN settings
    /\ \E i \in 1..Len(invoked) :
          invoked[i][1] = "pyflakes" /\ invoked[i][2] # {}

=============================================================================
